---- MODULE Spec2Model ----
(***************************************************************************)
(* The prediction lifecycle engine of the WinGo prediction server          *)
(* (src/unnamed/part_000; src/unnamed/part_001 lines 103-454 is the same   *)
(* engine with a single feed URL and a history of 100).                    *)
(*                                                                         *)
(* Granularity.  Node runs one callback (a timer, an I/O completion, an    *)
(* HTTP request) to its end, and then every continuation that is already   *)
(* resolved, before it runs the next callback.  An action of this model is *)
(* one such run: it starts where an awaited external call (the feed fetch, *)
(* a model.generateContent call) completes or where a timer or a request   *)
(* fires, and it ends where the code next waits for an external call.  An  *)
(* await of an already resolved promise (await compareActualToPending, the *)
(* Promise.all of key-less slots) does not end the action.                 *)
(***************************************************************************)
EXTENDS Integers, Sequences, FiniteSets, TLC

\* ------------------------------------------------------------------ bounds
N == 2            \* predictor slots modelled (KEYS holds 10)
MaxTicks == 2     \* pollLoopOnce invocations that may be in progress at once
MaxIssue == 3     \* periods the feed publishes in a run
MaxFeedLen == 1   \* entries of the page the feed serves
MaxKeyed == 1     \* slots that have an API key (slots 1..k, k <= MaxKeyed)

\* --------------------------------------------------------------- constants
FetchLimit == 10  \* fetchWinGoHistory(10)
HistoryCap == 200 \* stat.history.length > 200

Slots == 1..N
Ticks == 1..MaxTicks
ForceProc == 0                  \* the POST /api/force handler
Procs == {ForceProc} \cup Ticks

\* JS null: a missing issue is 0 (like null, the identifiers 0 and "" are
\* falsy too), a missing string is "null", a missing object is <<>>.
NoIssue == 0
NullStr == "null"
NaNNumber == 0 - 1              \* Number.isNaN(number) ? null : number

Colors == {"Red", "Green", "Violet"}
Sizes == {"Big", "Small"}
Digits == 0..9

\* ------------------------------------------------------------------ strings
\* String.prototype.toLowerCase over the strings the model uses.
ToLowerCase(s) ==
  CASE s \in {"Red", "RED", "red"} -> "red"
    [] s \in {"Green", "GREEN", "green"} -> "green"
    [] s \in {"Violet", "VIOLET", "violet"} -> "violet"
    [] s \in {"Big", "BIG", "big"} -> "big"
    [] s \in {"Small", "SMALL", "small"} -> "small"
    [] s \in {"Blue", "blue"} -> "blue"
    [] OTHER -> s

\* s.charAt(0).toUpperCase() + s.slice(1).toLowerCase()
Capitalize(s) ==
  CASE ToLowerCase(s) = "red" -> "Red"
    [] ToLowerCase(s) = "green" -> "Green"
    [] ToLowerCase(s) = "violet" -> "Violet"
    [] ToLowerCase(s) = "big" -> "Big"
    [] ToLowerCase(s) = "small" -> "Small"
    [] ToLowerCase(s) = "blue" -> "Blue"
    [] OTHER -> s

\* ----------------------------------------------------------- category rules
\* sizeOf with "n > 5" for "n >= 5".
sizeOfAboveFive(n) == IF n > 5 THEN "Big" ELSE "Small"

sizeOf(n) == IF n >= 5 THEN "Big" ELSE "Small"

colorNormalizedFromNumber(n) ==
  IF n = 9 THEN "Violet"
  ELSE IF n \in {0, 2, 4, 6, 8} THEN "Red"
  ELSE "Green"

\* The digits Math.floor(Math.random() * 10) is let to draw in a run.
RandomDigits == {7, 8}

\* A random digit passed through the rules.
RandomForecasts ==
  {[color |-> colorNormalizedFromNumber(d), size |-> sizeOf(d)] : d \in RandomDigits}

\* ---------------------------------------------------------------- the feed
\* A raw feed item: its issue (NoIssue when none of issueNumber, issue, id is
\* there, or when it is 0 or ""), what Number() makes of its number
\* (NaNNumber when it is no number) and its colour ("" when none of color,
\* colour, c is there).
FeedNumbers == {2, 7, NaNNumber}
FeedColors == {"", "Green"}
RawEntries(issue) ==
  {[issue |-> i, number |-> n, color |-> c] :
     i \in {issue, NoIssue}, n \in FeedNumbers, c \in FeedColors}

normalizeEntry(entry) ==
  LET color == ToLowerCase(entry.color)
  IN [issue |-> entry.issue,
      number |-> entry.number,
      color |-> IF color = "" THEN NullStr ELSE color]

Take(seq, n) == SubSeq(seq, 1, IF Len(seq) < n THEN Len(seq) ELSE n)

KeepParsed(x) == x.number # NaNNumber

\* What fetchWinGoHistory(limit) returns for the page the feed serves.
Normalized(page, limit) ==
  Take(SelectSeq([i \in 1..Len(page) |-> normalizeEntry(page[i])], KeepParsed),
       limit)

VARIABLES
  KEYS,                \* KEYS[s]: slot s has an API key
  AI_STATS,            \* the ledger record of every slot
  cachedHistory,       \* the last non-empty snapshot a tick fetched
  lastSeenIssue,       \* the period marker, NoIssue before the first one
  pendingPredictions,  \* <<>> or <<[predictions, compared]>>
  feed,                \* the page the feed serves now, newest first
  issued,              \* periods the feed has published
  pc,                  \* where each invocation stands: idle, fetch, gen
  awaiting,            \* each invocation's slots whose backend call is open
  intervalSet,         \* setInterval(pollLoopOnce, POLL_MS) has been called
  reconciled,          \* per slot: reconciliations it had a lastPrediction in
  lastStep,            \* the path the last action took, the kind of its input
  revision,            \* server.js: which of its two revisions runs (1 or 2)
  served,              \* server.js: its AI_STATS, the record of every slot
  reply,               \* server.js: the last response it sent
  context,             \* per invocation: newest issue of the snapshot it solicits from
  batchContext,        \* newest issue of the snapshot the stored batch was solicited from
  response,            \* call by call: <<>> or the response text that is interpreted
  forecast,            \* call by call: <<>> or what askGeminiWithPrompt made of it
  category,            \* call by call: <<>> or a number with its colour and size
  payload,             \* call by call: <<>> or the payload the feed answered with
  snapshot             \* call by call: <<>> or what fetchWinGoHistory returned for it

vars == <<KEYS, AI_STATS, cachedHistory, lastSeenIssue, pendingPredictions,
          feed, issued, pc, awaiting, intervalSet, reconciled,
          lastStep, revision, served, reply, context, batchContext,
          response, forecast, category, payload, snapshot>>

\* The functions taken call by call, in SpecForecast and SpecNormalizer.
units == <<response, forecast, category, payload, snapshot>>

\* The history of the solicitations, followed in SpecContext alone.
solicited == <<context, batchContext>>

server == <<revision, served, reply>>

engine == <<AI_STATS, cachedHistory, lastSeenIssue, pendingPredictions>>

KeyedSlots == {s \in Slots : KEYS[s]}

NoUnits ==
  /\ response = <<>>
  /\ forecast = <<>>
  /\ category = <<>>
  /\ payload = <<>>
  /\ snapshot = <<>>

\* server.js as constructed, before any request.
ServerStat == [wins |-> 0, losses |-> 0, history |-> <<>>, lastPrediction |-> <<>>]

ServerIdle ==
  /\ revision = 1
  /\ served = [s \in Slots |-> ServerStat]
  /\ reply = <<>>

InitStat ==
  [wins |-> 0, losses |-> 0, total |-> 0, accuracy |-> 0, history |-> <<>>,
   lastPrediction |-> <<>>, lastResultCorrect |-> NullStr]

Init ==
  /\ KEYS \in {[s \in Slots |-> s <= k] : k \in 0..MaxKeyed}
  /\ AI_STATS = [s \in Slots |-> InitStat]
  /\ cachedHistory = <<>>
  /\ lastSeenIssue = NoIssue
  /\ pendingPredictions = <<>>
  /\ feed = <<>>
  /\ issued = 0
  /\ pc = [p \in Procs |-> IF p = 1 THEN "fetch" ELSE "idle"]
  /\ awaiting = [p \in Procs |-> {}]
  /\ intervalSet = FALSE
  /\ reconciled = [s \in Slots |-> 0]
  /\ lastStep = "start"
  /\ context = [p \in Procs |-> NoIssue]
  /\ batchContext = NoIssue
  /\ NoUnits
  /\ ServerIdle

\* ------------------------------------------------------------- the backend
\* What model.generateContent gives back for one slot: "throw" (a network
\* or credential error), or a response text, described by what the code
\* reads from it: what JSON.parse makes of it (<<>> when it throws, else
\* the color and size fields as strings, "" for a missing field), the
\* vocabulary words its lower-cased text contains, and its first digit
\* (NaNNumber when it has none).
Text(parsed, words, digit) == [parsed |-> parsed, words |-> words, digit |-> digit]

\* The texts the backend is let to answer in a run:
\*   {"color":"GREEN","size":"small"}  a valid object, in other case
\*   {"color":"Blue","size":"Small"}   an object outside the vocabulary
\*   Violet, small. (3 of 5)           no JSON, both words
\*   7                                 JSON, but no object; a digit
\*   (nothing)                         no JSON, no word, no digit
ResponseTexts ==
  { Text(<<[color |-> "GREEN", size |-> "small"]>>, {"green", "small"}, NaNNumber),
    Text(<<[color |-> "Blue", size |-> "Small"]>>, {"blue", "small"}, NaNNumber),
    Text(<<>>, {"violet", "small"}, 3),
    Text(<<[color |-> "", size |-> ""]>>, {}, 7),
    Text(<<>>, {}, NaNNumber) }

\* StrictParse without the validation against the vocabularies.
StrictParseUnchecked(txt) ==
  IF txt.parsed = <<>> THEN <<>>
  ELSE <<[color |-> Capitalize(txt.parsed[1].color),
          size |-> Capitalize(txt.parsed[1].size)]>>

\* The strict parse of askGeminiWithPrompt: <<>> when it gives nothing.
StrictParse(txt) ==
  IF txt.parsed = <<>> THEN <<>>
  ELSE LET colorNorm == Capitalize(txt.parsed[1].color)
           sizeNorm == Capitalize(txt.parsed[1].size)
       IN IF colorNorm \in {"Red", "Green", "Violet"} /\ sizeNorm \in {"Big", "Small"}
          THEN <<[color |-> colorNorm, size |-> sizeNorm]>>
          ELSE <<>>

\* The word search of askGeminiWithPrompt: <<>> when a word is missing.
WordGuess(txt) ==
  LET colorGuess == IF "violet" \in txt.words THEN "Violet"
                    ELSE IF "green" \in txt.words THEN "Green"
                    ELSE IF "red" \in txt.words THEN "Red"
                    ELSE NullStr
      sizeGuess == IF "big" \in txt.words THEN "Big"
                   ELSE IF "small" \in txt.words THEN "Small"
                   ELSE NullStr
  IN IF colorGuess # NullStr /\ sizeGuess # NullStr
     THEN <<[color |-> colorGuess, size |-> sizeGuess]>>
     ELSE <<>>

\* InterpretText with the first digit looked for before the words.
InterpretDigitFirst(txt) ==
  IF StrictParse(txt) # <<>> THEN {StrictParse(txt)[1]}
  ELSE IF txt.digit # NaNNumber
    THEN {[color |-> colorNormalizedFromNumber(txt.digit), size |-> sizeOf(txt.digit)]}
  ELSE IF WordGuess(txt) # <<>> THEN {WordGuess(txt)[1]}
  ELSE RandomForecasts

\* The forecasts askGeminiWithPrompt can return for a text.
InterpretText(txt) ==
  IF StrictParse(txt) # <<>> THEN {StrictParse(txt)[1]}
  ELSE IF WordGuess(txt) # <<>> THEN {WordGuess(txt)[1]}
  ELSE IF txt.digit # NaNNumber
    THEN {[color |-> colorNormalizedFromNumber(txt.digit), size |-> sizeOf(txt.digit)]}
  ELSE RandomForecasts

\* The forecasts askGeminiWithPrompt can return with a key: the fallback
\* of its catch, or what it reads from the response text.
KeyedForecasts ==
  RandomForecasts \cup UNION {InterpretText(txt) : txt \in ResponseTexts}

\* The forecasts askGeminiWithPrompt can return for a slot.
askGeminiWithPrompt(apiKey) ==
  IF ~apiKey THEN RandomForecasts ELSE KeyedForecasts

\* --------------------------------------------------------------- the ledger
\* Math.round((wins / total) * 100)
RoundPercent(wins, total) == (200 * wins + total) \div (2 * total)

\* Unshift without the cut to the cap.
UnshiftUncapped(hist, bit, cap) == <<bit>> \o hist

\* history.unshift(bit); if (history.length > cap) history.length = cap
Unshift(hist, bit, cap) == Take(<<bit>> \o hist, cap)

\* Judge with the else of "if (bothCorrect) stat.wins++; else stat.losses++"
\* lost: a win is counted as a loss too.
JudgeNoElse(stat, pred, actualColor, actualSize) ==
  LET predicted == IF stat.lastPrediction # <<>> THEN stat.lastPrediction[1]
                   ELSE [color |-> pred.color, size |-> pred.size]
      bothCorrect == /\ ToLowerCase(predicted.color) = ToLowerCase(actualColor)
                     /\ ToLowerCase(predicted.size) = ToLowerCase(actualSize)
      wins == IF bothCorrect THEN stat.wins + 1 ELSE stat.wins
      losses == stat.losses + 1
  IN [stat EXCEPT !.wins = wins,
                  !.losses = losses,
                  !.history = Unshift(stat.history, IF bothCorrect THEN 1 ELSE 0, HistoryCap),
                  !.total = wins + losses,
                  !.accuracy = RoundPercent(wins, wins + losses),
                  !.lastResultCorrect = IF bothCorrect THEN "true" ELSE "false"]

\* Judge with partial credit: a match of the colour or of the size wins.
JudgePartialCredit(stat, pred, actualColor, actualSize) ==
  LET predicted == IF stat.lastPrediction # <<>> THEN stat.lastPrediction[1]
                   ELSE [color |-> pred.color, size |-> pred.size]
      colorOk == ToLowerCase(predicted.color) = ToLowerCase(actualColor)
      sizeOk == ToLowerCase(predicted.size) = ToLowerCase(actualSize)
      bothCorrect == colorOk \/ sizeOk
      wins == IF bothCorrect THEN stat.wins + 1 ELSE stat.wins
      losses == IF bothCorrect THEN stat.losses ELSE stat.losses + 1
      total == wins + losses
  IN [stat EXCEPT !.wins = wins,
                  !.losses = losses,
                  !.history = Unshift(stat.history, IF bothCorrect THEN 1 ELSE 0, HistoryCap),
                  !.total = total,
                  !.accuracy = IF total # 0 THEN RoundPercent(wins, total) ELSE 0,
                  !.lastResultCorrect = IF bothCorrect THEN "true" ELSE "false"]

\* The body of the forEach of compareActualToPending for one prediction.
Judge(stat, pred, actualColor, actualSize) ==
  LET predicted == IF stat.lastPrediction # <<>> THEN stat.lastPrediction[1]
                   ELSE [color |-> pred.color, size |-> pred.size]
      colorOk == ToLowerCase(predicted.color) = ToLowerCase(actualColor)
      sizeOk == ToLowerCase(predicted.size) = ToLowerCase(actualSize)
      bothCorrect == colorOk /\ sizeOk
      wins == IF bothCorrect THEN stat.wins + 1 ELSE stat.wins
      losses == IF bothCorrect THEN stat.losses ELSE stat.losses + 1
      total == wins + losses
  IN [stat EXCEPT !.wins = wins,
                  !.losses = losses,
                  !.history = Unshift(stat.history, IF bothCorrect THEN 1 ELSE 0, HistoryCap),
                  !.total = total,
                  !.accuracy = IF total # 0 THEN RoundPercent(wins, total) ELSE 0,
                  !.lastResultCorrect = IF bothCorrect THEN "true" ELSE "false"]

\* predictions.forEach(...) from the k-th prediction on.
RECURSIVE JudgeFrom(_, _, _, _, _)
JudgeFrom(stats, predictions, k, actualColor, actualSize) ==
  IF k > Len(predictions) THEN stats
  ELSE LET pred == predictions[k]
       IN JudgeFrom([stats EXCEPT ![pred.id] = Judge(stats[pred.id], pred, actualColor, actualSize)],
                    predictions, k + 1, actualColor, actualSize)

\* compareActualToPending with the entry's own colour ignored.
compareByNumberOnly(stats, pending, actualEntry) ==
  IF pending = <<>> THEN stats
  ELSE JudgeFrom(stats, pending[1].predictions, 1,
                 colorNormalizedFromNumber(actualEntry.number), sizeOf(actualEntry.number))

\* compareActualToPending that judges the first prediction of the batch alone.
compareFirstOnly(stats, pending, actualEntry) ==
  IF pending = <<>> THEN stats
  ELSE LET actualColor == IF actualEntry.color # NullStr THEN actualEntry.color
                          ELSE colorNormalizedFromNumber(actualEntry.number)
           actualSize == sizeOf(actualEntry.number)
       IN JudgeFrom(stats, <<pending[1].predictions[1]>>, 1, actualColor, actualSize)

\* AI_STATS after compareActualToPending(actualEntry).
compareActualToPending(stats, pending, actualEntry) ==
  IF pending = <<>> THEN stats
  ELSE LET actualColor == IF actualEntry.color # NullStr THEN actualEntry.color
                          ELSE colorNormalizedFromNumber(actualEntry.number)
           actualSize == sizeOf(actualEntry.number)
       IN JudgeFrom(stats, pending[1].predictions, 1, actualColor, actualSize)

\* pendingPredictions after compareActualToPending: comparedAt is set.
MarkCompared(pending) ==
  IF pending = <<>> THEN pending ELSE <<[pending[1] EXCEPT !.compared = TRUE]>>

\* pendingPredictions = { generatedAt, predictions: results }
Batch(results) ==
  <<[predictions |-> [i \in 1..N |-> [id |-> i, color |-> results[i].color, size |-> results[i].size]],
     compared |-> FALSE]>>

\* Recorded for the first result alone: a partial write.
RecordedFirstOnly(stats, results) ==
  [s \in Slots |-> IF s = 1 THEN [stats[s] EXCEPT !.lastPrediction = <<results[s]>>,
                                                  !.lastResultCorrect = NullStr]
                   ELSE stats[s]]

\* Recorded without "lastResultCorrect = null".
RecordedKeepsJudgement(stats, results) ==
  [s \in Slots |-> [stats[s] EXCEPT !.lastPrediction = <<results[s]>>]]

\* results.forEach(r => { lastPrediction = ...; lastResultCorrect = null })
Recorded(stats, results) ==
  [s \in Slots |-> [stats[s] EXCEPT !.lastPrediction = <<results[s]>>,
                                    !.lastResultCorrect = NullStr]]

\* ------------------------------------------------------------ the operations
\* IsNewActual with the test lost: every polled snapshot is a new actual.
IsNewActualAlways(newestIssue, marker) == newestIssue = newestIssue

\* The "new actual" test of pollLoopOnce: newestIssue !== lastSeenIssue.
IsNewActual(newestIssue, marker) == newestIssue # marker

\* MarkerAfter with the assignment lost: the marker stays.
MarkerKept(newestIssue, marker) == marker

\* The marker after a reconciliation: lastSeenIssue = newestIssue.
MarkerAfter(newestIssue, marker) == newestIssue

\* What a fetch can return: nothing (every URL failed, timed out after 12 s
\* or held no parseable entry) or the normalized page.
Fetches == {<<>>, Normalized(feed, FetchLimit)}

\* Finish for a poller whose start-up code never reaches setInterval.
FinishUnscheduled(p) ==
  /\ pc' = [pc EXCEPT ![p] = "idle"]
  /\ awaiting' = [awaiting EXCEPT ![p] = {}]
  /\ intervalSet' = intervalSet

\* An invocation ends: pollLoopOnce returns (after the first one the start-up
\* code calls setInterval), the force handler sends its response.
Finish(p) ==
  /\ pc' = [pc EXCEPT ![p] = "idle"]
  /\ awaiting' = [awaiting EXCEPT ![p] = {}]
  /\ intervalSet' = (intervalSet \/ p # ForceProc)

\* Invocation p waits in Promise.all for the backend calls of the slots open.
Wait(p, open) ==
  /\ pc' = [pc EXCEPT ![p] = "gen"]
  /\ awaiting' = [awaiting EXCEPT ![p] = open]
  /\ UNCHANGED intervalSet

\* Store without the results.forEach: the batch alone is written.
StoreBatchOnly(stats) ==
  \E results \in [Slots -> KeyedForecasts] :
    /\ \A s \in Slots : results[s] \in askGeminiWithPrompt(KEYS[s])
    /\ AI_STATS' = stats
    /\ pendingPredictions' = Batch(results)

\* The end of generatePredictionsForNextPeriod, after its Promise.all.
Store(stats) ==
  \E results \in [Slots -> KeyedForecasts] :
    /\ \A s \in Slots : results[s] \in askGeminiWithPrompt(KEYS[s])
    /\ AI_STATS' = Recorded(stats, results)
    /\ pendingPredictions' = Batch(results)

\* generatePredictionsForNextPeriod, called by p when the ledger is stats
\* and the batch is pending: a slot without a key resolves at once, a slot
\* with a key waits for the backend.  (The history it is given goes into
\* the prompt only; the backend's answer is any text.)
generatePredictionsForNextPeriod(p, stats, pending) ==
  IF KeyedSlots = {}
  THEN Store(stats) /\ Finish(p)
  ELSE /\ AI_STATS' = stats
       /\ pendingPredictions' = pending
       /\ Wait(p, KeyedSlots)

\* setInterval fires: pollLoopOnce is called, whatever is in progress.
TimerFire(t) ==
  /\ intervalSet
  /\ pc[t] = "idle"
  /\ \A u \in Ticks : pc[u] = "idle" => t <= u
  /\ pc' = [pc EXCEPT ![t] = "fetch"]
  /\ lastStep' = "other"
  /\ UNCHANGED <<server, units, KEYS, engine, feed, issued, awaiting, intervalSet, reconciled>>

\* EmptyTick with "cachedHistory = history.slice()" moved before the test.
EmptyTickCaches(t) ==
  /\ Finish(t)
  /\ lastStep' = "empty"
  /\ cachedHistory' = <<>>
  /\ UNCHANGED <<AI_STATS, lastSeenIssue, pendingPredictions, reconciled>>

\* pollLoopOnce when the snapshot is empty: it logs and returns.
EmptyTick(t) ==
  /\ Finish(t)
  /\ lastStep' = "empty"
  /\ UNCHANGED <<engine, reconciled>>

\* NoopTick without the test "if (!pendingPredictions)": it solicits again.
NoopTickResolicits(t) ==
  /\ generatePredictionsForNextPeriod(t, AI_STATS, pendingPredictions)
  /\ lastStep' = "noop"
  /\ UNCHANGED <<lastSeenIssue, reconciled>>

\* pollLoopOnce when the newest issue is the marker and a batch is pending:
\* it returns.
NoopTick(t) ==
  /\ Finish(t)
  /\ lastStep' = "noop"
  /\ UNCHANGED <<AI_STATS, pendingPredictions, lastSeenIssue, reconciled>>

\* pollLoopOnce from the return of fetchWinGoHistory on.
PollFetched(t, fetched) ==
  /\ t \in Ticks
  /\ pc[t] = "fetch"
  /\ UNCHANGED <<server, units, KEYS, feed, issued>>
  /\ IF fetched = <<>>
     THEN EmptyTick(t)
     ELSE LET newest == fetched[1]
              newestIssue == newest.issue
          IN /\ cachedHistory' = fetched
             /\ IF lastSeenIssue = NoIssue
                THEN /\ lastSeenIssue' = newestIssue
                     /\ generatePredictionsForNextPeriod(t, AI_STATS, pendingPredictions)
                     /\ lastStep' = "init"
                     /\ UNCHANGED reconciled
                ELSE IF IsNewActual(newestIssue, lastSeenIssue)
                THEN /\ generatePredictionsForNextPeriod(t,
                          compareActualToPending(AI_STATS, pendingPredictions, newest),
                          MarkCompared(pendingPredictions))
                     /\ lastSeenIssue' = MarkerAfter(newestIssue, lastSeenIssue)
                     /\ reconciled' = [s \in Slots |->
                          IF AI_STATS[s].lastPrediction # <<>>
                          THEN reconciled[s] + 1 ELSE reconciled[s]]
                     /\ lastStep' = "reconcile"
                ELSE IF pendingPredictions = <<>>
                THEN /\ generatePredictionsForNextPeriod(t, AI_STATS, pendingPredictions)
                     /\ lastStep' = "solicit"
                     /\ UNCHANGED <<lastSeenIssue, reconciled>>
                ELSE NoopTick(t)

\* The backend call of slot s of invocation p completes (a response or an
\* error); the last one to complete releases the Promise.all.
ForecastSettled(p, s) ==
  /\ pc[p] = "gen"
  /\ s \in awaiting[p]
  /\ IF awaiting[p] = {s}
     THEN Store(AI_STATS) /\ Finish(p) /\ lastStep' = "other"
     ELSE /\ Wait(p, awaiting[p] \ {s})
          /\ lastStep' = "other"
          /\ UNCHANGED <<AI_STATS, pendingPredictions>>
  /\ UNCHANGED <<server, units, KEYS, cachedHistory, lastSeenIssue, feed, issued, reconciled>>

\* POST /api/force arrives.
ForceRequest ==
  /\ pc[ForceProc] = "idle"
  /\ pc' = [pc EXCEPT ![ForceProc] = "fetch"]
  /\ lastStep' = "other"
  /\ UNCHANGED <<server, units, KEYS, engine, feed, issued, awaiting, intervalSet, reconciled>>

\* ForceFetched caching its snapshot as a tick does.
ForceFetchedCaches(fetched) ==
  /\ pc[ForceProc] = "fetch"
  /\ generatePredictionsForNextPeriod(ForceProc, AI_STATS, pendingPredictions)
  /\ lastStep' = "force"
  /\ cachedHistory' = fetched
  /\ UNCHANGED <<server, units, KEYS, lastSeenIssue, feed, issued, reconciled>>

\* The force handler from the return of fetchWinGoHistory on.
ForceFetched(fetched) ==
  /\ pc[ForceProc] = "fetch"
  /\ generatePredictionsForNextPeriod(ForceProc, AI_STATS, pendingPredictions)
  /\ lastStep' = "force"
  /\ UNCHANGED <<server, units, KEYS, cachedHistory, lastSeenIssue, feed, issued, reconciled>>

\* The feed publishes the next period.
FeedAdvance(entry) ==
  /\ issued < MaxIssue
  /\ feed' = Take(<<entry>> \o feed, MaxFeedLen)
  /\ issued' = issued + 1
  /\ lastStep' = "other"
  /\ UNCHANGED <<server, units, KEYS, engine, pc, awaiting, intervalSet, reconciled>>

Next ==
  \/ \E t \in Ticks : TimerFire(t) /\ UNCHANGED solicited
  \/ \E t \in Ticks : \E fetched \in Fetches : PollFetched(t, fetched) /\ UNCHANGED solicited
  \/ \E p \in Procs : \E s \in Slots : ForecastSettled(p, s) /\ UNCHANGED solicited
  \/ ForceRequest /\ UNCHANGED solicited
  \/ \E fetched \in Fetches : ForceFetched(fetched) /\ UNCHANGED solicited
  \/ \E entry \in RawEntries(issued + 1) : FeedAdvance(entry) /\ UNCHANGED solicited

Spec == Init /\ [][Next]_vars

\* The scheduled ticks alone, on a feed whose every entry has an issue: no
\* request to /api/force arrives.
TicksNext ==
  \/ \E t \in Ticks : TimerFire(t) /\ UNCHANGED solicited
  \/ \E t \in Ticks : \E fetched \in Fetches : PollFetched(t, fetched) /\ UNCHANGED solicited
  \/ \E t \in Ticks : \E s \in Slots : ForecastSettled(t, s) /\ UNCHANGED solicited
  \/ \E entry \in {e \in RawEntries(issued + 1) : e.issue # NoIssue} :
       FeedAdvance(entry) /\ UNCHANGED solicited

SpecTicks == Init /\ [][TicksNext]_vars

\* What the code's scheduling guarantees: a fetch returns (every axios.get
\* has a 12 s timeout) and the handler then runs.  Nothing bounds a call of
\* model.generateContent, so no fairness is stated for ForecastSettled.
FairTicks ==
  /\ SpecTicks
  /\ \A t \in Ticks :
       WF_vars(\E fetched \in Fetches : PollFetched(t, fetched) /\ UNCHANGED solicited)

\* ------------------------------------------- where a batch was solicited from
\* The scheduled ticks and the forced resolicitations on a feed whose every
\* entry has an issue, with the snapshot of every solicitation followed:
\* generatePredictionsForNextPeriod(history) is called with the snapshot of
\* the tick (cachedHistory) or of the force handler (its own fetch).
NewestOf(history) == IF history = <<>> THEN NoIssue ELSE history[1].issue

\* Invocation p calls generatePredictionsForNextPeriod(history) in this step.
Solicits(p, history) ==
  IF pc'[p] = "gen"
  THEN /\ context' = [context EXCEPT ![p] = NewestOf(history)]
       /\ UNCHANGED batchContext
  ELSE /\ batchContext' = NewestOf(history)
       /\ UNCHANGED context

ContextPollFetched(t, fetched) ==
  /\ PollFetched(t, fetched)
  /\ IF lastStep' \in {"init", "reconcile", "solicit"}
     THEN Solicits(t, fetched)
     ELSE UNCHANGED solicited

ContextForceFetched(fetched) ==
  /\ ForceFetched(fetched)
  /\ Solicits(ForceProc, fetched)

ContextForecastSettled(p, s) ==
  /\ ForecastSettled(p, s)
  /\ IF pc'[p] = "idle"
     THEN /\ batchContext' = context[p]
          /\ context' = [context EXCEPT ![p] = NoIssue]
     ELSE UNCHANGED solicited

ContextEntries(issue) == {[issue |-> issue, number |-> 7, color |-> ""]}

ContextNext ==
  \/ \E t \in Ticks : TimerFire(t) /\ UNCHANGED solicited
  \/ \E t \in Ticks : \E fetched \in Fetches : ContextPollFetched(t, fetched)
  \/ \E p \in Procs : \E s \in Slots : ContextForecastSettled(p, s)
  \/ ForceRequest /\ UNCHANGED solicited
  \/ \E fetched \in Fetches : ContextForceFetched(fetched)
  \/ \E entry \in ContextEntries(issued + 1) : FeedAdvance(entry) /\ UNCHANGED solicited

SpecContext == Init /\ [][ContextNext]_vars

\* ------------------------------------------------ the ledger, call by call
\* The ledger's operations taken one call at a time, on every forecast of the
\* vocabulary and every outcome number: a snapshot is cached (pollLoopOnce,
\* "cachedHistory = history.slice()"), a batch is stored and recorded (the
\* end of generatePredictionsForNextPeriod), the batch is judged against the
\* newest entry of the snapshot (compareActualToPending(newest)).
MaxJudged == 2

LedgerNumbers == {2, 7, 9}
LedgerColors == {"", "RED", "violet"}
LedgerEntries ==
  {[issue |-> 1, number |-> n, color |-> c] : n \in LedgerNumbers, c \in LedgerColors}

AllForecasts == [color : Colors, size : Sizes]

\* A ledger record after k judgements of which the oldest alone was a win.
StatAfter(k) ==
  [InitStat EXCEPT !.wins = IF k = 0 THEN 0 ELSE 1,
                   !.losses = IF k = 0 THEN 0 ELSE k - 1,
                   !.total = k,
                   !.accuracy = IF k = 0 THEN 0 ELSE RoundPercent(1, k),
                   !.history = [i \in 1..(IF k < HistoryCap THEN k ELSE HistoryCap) |->
                                  IF i = k THEN 1 ELSE 0]]

InitLedger ==
  /\ KEYS = [s \in Slots |-> FALSE]
  /\ \E k \in {0, HistoryCap - 1, HistoryCap} : AI_STATS = [s \in Slots |-> StatAfter(k)]
  /\ cachedHistory = <<>>
  /\ lastSeenIssue = NoIssue
  /\ pendingPredictions = <<>>
  /\ feed = <<>>
  /\ issued = 0
  /\ pc = [p \in Procs |-> "idle"]
  /\ awaiting = [p \in Procs |-> {}]
  /\ intervalSet = FALSE
  /\ reconciled = [s \in Slots |-> 0]
  /\ lastStep = "start"
  /\ context = [p \in Procs |-> NoIssue]
  /\ batchContext = NoIssue
  /\ NoUnits
  /\ ServerIdle

TakeSnapshot(entry) ==
  /\ Normalized(<<entry>>, FetchLimit) # <<>>
  /\ cachedHistory' = Normalized(<<entry>>, FetchLimit)
  /\ lastStep' = "snapshot"
  /\ UNCHANGED <<server, units, KEYS, AI_STATS, lastSeenIssue, pendingPredictions, feed, issued,
                 pc, awaiting, intervalSet, reconciled>>

RecordPredictions(results) ==
  /\ AI_STATS' = Recorded(AI_STATS, results)
  /\ pendingPredictions' = Batch(results)
  /\ lastStep' = "record"
  /\ UNCHANGED <<server, units, KEYS, cachedHistory, lastSeenIssue, feed, issued,
                 pc, awaiting, intervalSet, reconciled>>

JudgeActual ==
  /\ cachedHistory # <<>>
  /\ reconciled[1] < MaxJudged
  /\ AI_STATS' = compareActualToPending(AI_STATS, pendingPredictions, cachedHistory[1])
  /\ pendingPredictions' = MarkCompared(pendingPredictions)
  /\ reconciled' = [s \in Slots |->
       IF AI_STATS[s].lastPrediction # <<>> THEN reconciled[s] + 1 ELSE reconciled[s]]
  /\ lastStep' = "judge"
  /\ UNCHANGED <<server, units, KEYS, cachedHistory, lastSeenIssue, feed, issued,
                 pc, awaiting, intervalSet>>

LedgerNext ==
  \/ \E entry \in LedgerEntries : TakeSnapshot(entry) /\ UNCHANGED solicited
  \/ \E results \in [Slots -> AllForecasts] : RecordPredictions(results) /\ UNCHANGED solicited
  \/ JudgeActual /\ UNCHANGED solicited

SpecLedger == InitLedger /\ [][LedgerNext]_vars

\* ------------------------------------------------------------------ server.js
\* src/server.js holds two revisions of a server that predicts digits and is
\* told the actual by POST /api/report-actual; they differ in how the
\* history is kept.  A run starts after k reports of which the first alone
\* was a win, and goes on for MaxReports reports.
MaxReports == 2

ServerHistoryCap == 10   \* s.history.length > 10

StartCounts == {0, ServerHistoryCap - 1}

\* The digits askModel is let to return in a run.
ServerDigits == {2, 7}

\* req.body.actual: a number, a numeric string, another string, nothing, null.
ReportedActuals ==
  {[kind |-> "number", value |-> 2], [kind |-> "number", value |-> 7],
   [kind |-> "string", value |-> 7], [kind |-> "text", value |-> NaNNumber],
   [kind |-> "missing", value |-> NaNNumber], [kind |-> "null", value |-> NaNNumber]}

\* NumberOf with "Number(x) || 0" for Number(x): whatever is no number is 0.
NumberOrZero(raw) ==
  IF raw.kind \in {"number", "string"} THEN raw.value ELSE 0

\* Number(req.body.actual): NaNNumber for NaN.
NumberOf(raw) ==
  CASE raw.kind \in {"number", "string"} -> raw.value
    [] raw.kind = "null" -> 0
    [] OTHER -> NaNNumber

\* Revision 1: s.history.push(bit); if (s.history.length > 10) s.history.shift()
PushShift(hist, bit, cap) ==
  IF Len(hist) + 1 > cap THEN Tail(Append(hist, bit)) ELSE Append(hist, bit)

\* The history of a slot after k <= cap reports, the first alone a win.
HistoryAfter(rev, k) ==
  [i \in 1..k |-> IF (IF rev = 1 THEN i = 1 ELSE i = k) THEN 1 ELSE 0]

InitServer ==
  /\ KEYS = [s \in Slots |-> FALSE]
  /\ AI_STATS = [s \in Slots |-> InitStat]
  /\ cachedHistory = <<>>
  /\ lastSeenIssue = NoIssue
  /\ pendingPredictions = <<>>
  /\ feed = <<>>
  /\ issued = 0
  /\ pc = [p \in Procs |-> "idle"]
  /\ awaiting = [p \in Procs |-> {}]
  /\ intervalSet = FALSE
  /\ reconciled = [s \in Slots |-> 0]
  /\ lastStep = "start"
  /\ context = [p \in Procs |-> NoIssue]
  /\ batchContext = NoIssue
  /\ NoUnits
  /\ revision \in {1, 2}
  /\ \E k \in StartCounts :
       served = [s \in Slots |->
                   [wins |-> IF k = 0 THEN 0 ELSE 1,
                    losses |-> IF k = 0 THEN 0 ELSE k - 1,
                    history |-> HistoryAfter(revision, k),
                    lastPrediction |-> <<>>]]
  /\ reply = <<>>

\* POST /api/predict-all, after its Promise.all: every slot's lastPrediction.
PredictAll(out) ==
  /\ served' = [s \in Slots |-> [served[s] EXCEPT !.lastPrediction = <<out[s]>>]]
  /\ reply' = <<[success |-> TRUE, ranked |-> <<>>]>>
  /\ lastStep' = "predicted"
  /\ UNCHANGED <<revision, units, KEYS, engine, feed, issued, pc, awaiting, intervalSet,
                 reconciled>>

\* AI_STATS.forEach of /api/report-actual for one slot.
Reported(stat, actual) ==
  LET win == stat.lastPrediction = <<actual>>
      bit == IF win THEN 1 ELSE 0
  IN [stat EXCEPT !.wins = IF win THEN @ + 1 ELSE @,
                  !.losses = IF win THEN @ ELSE @ + 1,
                  !.history = IF revision = 1 THEN PushShift(@, bit, ServerHistoryCap)
                              ELSE Unshift(@, bit, ServerHistoryCap)]

\* a before b in "sort((a, b) => b.hitRate - a.hitRate)", hitRate being
\* wins / (wins + losses || 1): compared here by cross multiplication.
Denominator(x) == IF x.wins + x.losses = 0 THEN 1 ELSE x.wins + x.losses

\* HigherHitRate with ties taken for "higher": the sort turns ties around.
HigherOrEqualHitRate(a, b) == a.wins * Denominator(b) >= b.wins * Denominator(a)

HigherHitRate(a, b) == a.wins * Denominator(b) > b.wins * Denominator(a)

\* Array.prototype.sort is stable: x goes behind every element that is not
\* below it.
RECURSIVE InsertRanked(_, _)
InsertRanked(x, sorted) ==
  IF sorted = <<>> THEN <<x>>
  ELSE IF HigherHitRate(x, Head(sorted)) THEN <<x>> \o sorted
  ELSE <<Head(sorted)>> \o InsertRanked(x, Tail(sorted))

RECURSIVE SortRanked(_, _)
SortRanked(seq, k) ==
  IF k = 0 THEN <<>> ELSE InsertRanked(seq[k], SortRanked(seq, k - 1))

\* The ranked list of /api/report-actual.
Ranked(stats) ==
  SortRanked([s \in Slots |-> [id |-> s, wins |-> stats[s].wins,
                               losses |-> stats[s].losses,
                               history |-> stats[s].history]], N)

\* A report is taken in the first MaxReports reports after the start.
MayReport ==
  \E k \in StartCounts :
    /\ k <= served[1].wins + served[1].losses
    /\ served[1].wins + served[1].losses < k + MaxReports

\* POST /api/report-actual
ReportActual(raw) ==
  /\ MayReport
  /\ LET actual == NumberOf(raw)
     IN IF actual = NaNNumber
        THEN /\ reply' = <<[success |-> FALSE, ranked |-> <<>>]>>
             /\ UNCHANGED served
        ELSE LET stats == [s \in Slots |-> Reported(served[s], actual)]
             IN /\ served' = stats
                /\ reply' = <<[success |-> TRUE, ranked |-> Ranked(stats)]>>
  /\ lastStep' = raw.kind
  /\ UNCHANGED <<revision, units, KEYS, engine, feed, issued, pc, awaiting, intervalSet,
                 reconciled>>

ServerNext ==
  \/ \E out \in [Slots -> ServerDigits] : PredictAll(out) /\ UNCHANGED solicited
  \/ \E raw \in ReportedActuals : ReportActual(raw) /\ UNCHANGED solicited

SpecServer == InitServer /\ [][ServerNext]_vars

\* ------------------------------------------ the forecast, call by call
\* askGeminiWithPrompt from the response text on, and the category rules,
\* each taken as a function: a run starts with one response text and calls
\* the interpretation once and the rules on any number.
ParsedColors == {"", "Red", "GREEN", "violet", "Blue"}
ParsedSizes == {"", "big", "Small"}
Vocabulary == {"red", "green", "violet", "big", "small"}
TextDigits == {NaNNumber, 0, 5, 9}

\* The vocabulary words a parsed object brings into the lower-cased text.
WordsOf(parsed) ==
  IF parsed = <<>> THEN {}
  ELSE {ToLowerCase(parsed[1].color), ToLowerCase(parsed[1].size)} \cap Vocabulary

\* Response texts: JSON or not, with any of the words, with a digit or not.
InterpretedTexts ==
  {txt \in {Text(parsed, words, digit) :
              parsed \in {<<>>} \cup {<<[color |-> c, size |-> z]>> :
                                        c \in ParsedColors, z \in ParsedSizes},
              words \in SUBSET Vocabulary,
              digit \in TextDigits} :
     WordsOf(txt.parsed) \subseteq txt.words}

InitForecast ==
  /\ KEYS = [s \in Slots |-> TRUE]
  /\ AI_STATS = [s \in Slots |-> InitStat]
  /\ cachedHistory = <<>>
  /\ lastSeenIssue = NoIssue
  /\ pendingPredictions = <<>>
  /\ feed = <<>>
  /\ issued = 0
  /\ pc = [p \in Procs |-> "idle"]
  /\ awaiting = [p \in Procs |-> {}]
  /\ intervalSet = FALSE
  /\ reconciled = [s \in Slots |-> 0]
  /\ lastStep = "start"
  /\ context = [p \in Procs |-> NoIssue]
  /\ batchContext = NoIssue
  /\ response \in {<<txt>> : txt \in InterpretedTexts}
  /\ forecast = <<>>
  /\ category = <<>>
  /\ payload = <<>>
  /\ snapshot = <<>>
  /\ ServerIdle

\* askGeminiWithPrompt once generateContent has answered with the text.
Interpret ==
  /\ forecast = <<>>
  /\ \E f \in InterpretText(response[1]) : forecast' = <<f>>
  /\ UNCHANGED <<server, KEYS, engine, feed, issued, pc, awaiting, intervalSet,
                 reconciled, lastStep, response, category, payload, snapshot>>

\* colorNormalizedFromNumber(n) and sizeOf(n).
Categorize(n) ==
  /\ category' = <<[number |-> n, color |-> colorNormalizedFromNumber(n), size |-> sizeOf(n)]>>
  /\ UNCHANGED <<server, KEYS, engine, feed, issued, pc, awaiting, intervalSet,
                 reconciled, lastStep, response, forecast, payload, snapshot>>

ForecastNext ==
  \/ Interpret /\ UNCHANGED solicited
  \/ \E n \in Digits : Categorize(n) /\ UNCHANGED solicited

SpecForecast == InitForecast /\ [][ForecastNext]_vars

\* ---------------------------------------------- the normalizer, call by call
\* fetchWinGoHistory(limit) on the payload one URL answers with.  A payload
\* is described by where parseWinGoData finds its array and by the items of
\* the array; a raw item is null, or an object with what its first
\* non-nullish field of number, num, value, n holds: a number, a numeric
\* string, another string, or nothing when it has none of the four.
MaxItems == 3
FetchLimits == {1, 2}

OutcomeFields ==
  {[kind |-> "number", value |-> 2], [kind |-> "string", value |-> 7],
   [kind |-> "text", value |-> NaNNumber], [kind |-> "missing", value |-> NaNNumber]}

\* The raw items at position i of the array; the issue tells them apart.
RawItems(i) ==
  {[null |-> FALSE, issue |-> i, number |-> f, color |-> ""] : f \in OutcomeFields}
    \cup {[null |-> TRUE, issue |-> NoIssue,
           number |-> [kind |-> "missing", value |-> NaNNumber], color |-> ""]}

RECURSIVE RawLists(_)
RawLists(n) ==
  IF n = 0 THEN {<<>>}
  ELSE RawLists(n - 1) \cup
         {Append(l, item) : l \in {k \in RawLists(n - 1) : Len(k) = n - 1},
                            item \in RawItems(n)}

\* "none": a falsy body; "object": an object without an array; "array":
\* the array is at data.list, list, data or the body; "keyed": it is under
\* another top-level key.
Payloads ==
  {[shape |-> "none", list |-> <<>>], [shape |-> "object", list |-> <<>>]}
    \cup {[shape |-> sh, list |-> l] : sh \in {"array", "keyed"}, l \in RawLists(MaxItems)}

parseWinGoData(respData) ==
  IF respData.shape \in {"none", "object"} THEN <<>> ELSE respData.list

\* x ?? null
OrNull(field) ==
  IF field.kind = "missing" THEN [kind |-> "null", value |-> NaNNumber] ELSE field

\* The raw item as normalizeEntry reads it: its number after
\* Number(entry.number ?? entry.num ?? entry.value ?? entry.n ?? null).
ReadEntry(item) ==
  [issue |-> item.issue, number |-> NumberOf(OrNull(item.number)), color |-> item.color]

\* One round of the loop of fetchWinGoHistory: normalizeEntry throws on a
\* null item and the catch of the round leaves the payload aside.
fetchWinGoHistory(respData, limit) ==
  LET list == parseWinGoData(respData)
  IN IF \E i \in 1..Len(list) : list[i].null THEN <<>>
     ELSE Normalized([i \in 1..Len(list) |-> ReadEntry(list[i])], limit)

InitNormalizer ==
  /\ KEYS = [s \in Slots |-> FALSE]
  /\ AI_STATS = [s \in Slots |-> InitStat]
  /\ cachedHistory = <<>>
  /\ lastSeenIssue = NoIssue
  /\ pendingPredictions = <<>>
  /\ feed = <<>>
  /\ issued = 0
  /\ pc = [p \in Procs |-> "idle"]
  /\ awaiting = [p \in Procs |-> {}]
  /\ intervalSet = FALSE
  /\ reconciled = [s \in Slots |-> 0]
  /\ lastStep = "start"
  /\ context = [p \in Procs |-> NoIssue]
  /\ batchContext = NoIssue
  /\ response = <<>>
  /\ forecast = <<>>
  /\ category = <<>>
  /\ payload \in {<<[body |-> b, limit |-> l]>> : b \in Payloads, l \in FetchLimits}
  /\ snapshot = <<>>
  /\ ServerIdle

Normalize ==
  /\ snapshot = <<>>
  /\ snapshot' = <<fetchWinGoHistory(payload[1].body, payload[1].limit)>>
  /\ UNCHANGED <<server, KEYS, engine, feed, issued, pc, awaiting, intervalSet,
                 reconciled, lastStep, response, forecast, category, payload>>

NormalizerNext ==
  \/ Normalize /\ UNCHANGED solicited

SpecNormalizer == InitNormalizer /\ [][NormalizerNext]_vars

\* ------------------------------------------------------------------ claims
Judged(s) == AI_STATS[s].wins + AI_STATS[s].losses

TicksInProgress == {t \in Ticks : pc[t] # "idle"}

\* The last action was pollLoopOnce on a non-empty snapshot (primed: this
\* step was; every other action resets lastStep).
Polled == lastStep \in {"init", "reconcile", "solicit", "noop"}

LedgerOf(s) == <<AI_STATS[s].wins, AI_STATS[s].losses, AI_STATS[s].history>>

\* C1: for every slot, wins + losses is the number of reconciliations that
\* found the slot with a lastPrediction; a step adds one to exactly one of
\* wins and losses when it is such a reconciliation, and nothing otherwise.
C1_JudgedOncePerReconciliation ==
  /\ [](\A s \in Slots : Judged(s) = reconciled[s])
  /\ [][\A s \in Slots :
          LET won == AI_STATS'[s].wins - AI_STATS[s].wins
              lost == AI_STATS'[s].losses - AI_STATS[s].losses
          IN /\ <<won, lost>> \in {<<0, 0>>, <<1, 0>>, <<0, 1>>}
             /\ won + lost = reconciled'[s] - reconciled[s]
             /\ won + lost = 1 =>
                  lastStep' = "reconcile" /\ AI_STATS[s].lastPrediction # <<>>]_vars

C1_Witness ==
  /\ lastStep = "reconcile"
  /\ \E s \in Slots :
       reconciled[s] = 2 /\ AI_STATS[s].wins = 1 /\ AI_STATS[s].losses = 1

\* C2: a poll of a non-empty snapshot with the marker set reconciles exactly
\* when the newest issue differs from the marker; when it is the marker, no
\* slot's wins, losses or history changes, whatever the outcome number is.
C2_ReconcileIffNewIssue ==
  [][(Polled' /\ lastSeenIssue # NoIssue) =>
       /\ (lastStep' = "reconcile") <=> (cachedHistory'[1].issue # lastSeenIssue)
       /\ (reconciled' # reconciled) =>
            (cachedHistory'[1].issue # lastSeenIssue)
       /\ (cachedHistory'[1].issue = lastSeenIssue) =>
            \A s \in Slots : LedgerOf(s)' = LedgerOf(s)]_vars

\* A poll found the marker's own period again, with another outcome number,
\* after a reconciliation, and judged nothing.
C2_Witness ==
  /\ lastStep = "noop"
  /\ \E s \in Slots : reconciled[s] = 1 /\ Judged(s) = 1
  /\ cachedHistory[1].issue = lastSeenIssue
  /\ feed # <<>> /\ feed[1].issue = lastSeenIssue

\* C3: a batch that is marked compared is never judged again, and a tick
\* changes a batch that has not been judged only in a step that judges it.
C3_BatchJudgedExactlyOnce ==
  [][/\ (pendingPredictions # <<>> /\ pendingPredictions[1].compared) =>
          \A s \in Slots : LedgerOf(s)' = LedgerOf(s)
     /\ ( /\ pendingPredictions # <<>>
          /\ ~pendingPredictions[1].compared
          /\ pendingPredictions' # pendingPredictions
          /\ pc'[ForceProc] = pc[ForceProc] ) =>
          \A s \in Slots : Judged(s)' = Judged(s) + 1]_vars

\* C4: at no time are two invocations of pollLoopOnce in progress.
C4_TicksSerialized == Cardinality(TicksInProgress) <= 1

\* C5: the ledger is judged in one step with the marker: a step that changes
\* a slot's wins, losses or history judges every slot once, leaves the marker
\* at the new period (the newest of the cached snapshot), different from the
\* old one, and leaves the old batch marked compared or already replaced by
\* the next batch; and in every state either no slot carries a judgement or
\* all do and the batch is marked compared.
C5_ReconciliationIsOneStep ==
  /\ [](\/ \A s \in Slots : AI_STATS[s].lastResultCorrect = NullStr
        \/ /\ \A s \in Slots : AI_STATS[s].lastResultCorrect # NullStr
           /\ pendingPredictions # <<>>
           /\ pendingPredictions[1].compared)
  /\ [](\A s, u \in Slots : Judged(s) = Judged(u))
  /\ [][(\E s \in Slots : LedgerOf(s)' # LedgerOf(s)) =>
          /\ \A s \in Slots : Judged(s)' = Judged(s) + 1
          /\ \A s \in Slots : Len(AI_STATS'[s].history) = Len(AI_STATS[s].history) + 1
          /\ lastSeenIssue' = cachedHistory'[1].issue
          /\ lastSeenIssue' # lastSeenIssue
          /\ \/ pendingPredictions' = MarkCompared(pendingPredictions)
             \/ ~pendingPredictions'[1].compared
          /\ (\E t \in Ticks : pc'[t] = "gen") =>
               /\ pendingPredictions' = MarkCompared(pendingPredictions)
               /\ \A s \in Slots : AI_STATS'[s].lastResultCorrect # NullStr]_vars

\* A tick has reconciled and waits for the backend: a status read now sees
\* every slot judged, the batch compared and the new marker.
C5_Witness ==
  /\ lastStep = "reconcile"
  /\ \E t \in Ticks : pc[t] = "gen"
  /\ pendingPredictions # <<>> /\ pendingPredictions[1].compared
  /\ \A s \in Slots : AI_STATS[s].lastResultCorrect # NullStr
  /\ lastSeenIssue = cachedHistory[1].issue

WellFormed(p) == p.color \in Colors /\ p.size \in Sizes

C7_EveryTickCompletes ==
  \A t \in Ticks : (pc[t] # "idle") ~> (pc[t] = "idle")

\* C8: a tick whose snapshot is empty changes neither the marker, the batch,
\* the cached snapshot nor any slot's ledger record.
C8_EmptySnapshotIsNoOp ==
  [][lastStep' = "empty" => UNCHANGED engine]_vars

\* A tick found the feed empty while a batch was pending.
C8_Witness ==
  /\ lastStep = "empty"
  /\ lastSeenIssue # NoIssue
  /\ pendingPredictions # <<>>
  /\ cachedHistory # <<>>

\* C9: the tick that finds the engine uninitialized and a non-empty snapshot
\* leaves the marker at the newest issue and set, so that no later tick
\* initializes again, changes no slot's wins, losses or history, and when it
\* is over a batch of N predictions, one per slot, is stored.
C9_FirstSnapshotInitializes ==
  [][lastStep' = "init" =>
       /\ lastSeenIssue' = cachedHistory'[1].issue
       /\ lastSeenIssue' # NoIssue
       /\ lastSeenIssue = NoIssue
       /\ \A s \in Slots : LedgerOf(s)' = LedgerOf(s)
       /\ (\A t \in Ticks : pc'[t] = "idle") =>
            /\ pendingPredictions' # <<>>
            /\ Len(pendingPredictions'[1].predictions) = N
            /\ \A i \in 1..N : pendingPredictions'[1].predictions[i].id = i]_vars

\* C10: once the marker is set it stays set, and whenever no tick is in
\* progress and the marker is set, a batch is stored.
C10_MarkerStaysSet ==
  /\ []((TicksInProgress = {} /\ lastSeenIssue # NoIssue) => pendingPredictions # <<>>)
  /\ [][lastSeenIssue # NoIssue => lastSeenIssue' # NoIssue]_vars

\* The actual of an entry: its own colour when it has one, else the colour of
\* its number; the size of its number.
ActualOf(entry) ==
  [color |-> IF entry.color # NullStr THEN entry.color
             ELSE colorNormalizedFromNumber(entry.number),
   size |-> sizeOf(entry.number)]

\* Prediction p and actual a agree on a field, whatever the case of letters.
SameColor(p, a) == ToLowerCase(p.color) = ToLowerCase(a.color)
SameSize(p, a) == ToLowerCase(p.size) = ToLowerCase(a.size)

\* C11: judging a slot is a win exactly when its lastPrediction has the
\* actual's colour and the actual's size, letters compared without case: a
\* recorded prediction judged against the same colour and size wins, one
\* judged against another colour, another size or both loses.
C11_WinIffBothMatch ==
  [][lastStep' = "judge" =>
       \A s \in Slots : AI_STATS[s].lastPrediction # <<>> =>
         LET p == AI_STATS[s].lastPrediction[1]
             a == ActualOf(cachedHistory[1])
         IN IF SameColor(p, a) /\ SameSize(p, a)
            THEN /\ AI_STATS'[s].wins = AI_STATS[s].wins + 1
                 /\ AI_STATS'[s].losses = AI_STATS[s].losses
                 /\ AI_STATS'[s].lastResultCorrect = "true"
            ELSE /\ AI_STATS'[s].wins = AI_STATS[s].wins
                 /\ AI_STATS'[s].losses = AI_STATS[s].losses + 1
                 /\ AI_STATS'[s].lastResultCorrect = "false"]_vars

\* Against an entry of number 9 and colour "violet", slot 1's {Violet, Big}
\* has won and slot N's {Violet, Small}, right in the colour alone, has lost.
C11_Witness ==
  /\ lastStep = "judge"
  /\ cachedHistory[1].number = 9 /\ cachedHistory[1].color = "violet"
  /\ AI_STATS[1].lastPrediction = <<[color |-> "Violet", size |-> "Big"]>>
  /\ AI_STATS[1].lastResultCorrect = "true" /\ AI_STATS[1].wins = 1
  /\ AI_STATS[N].lastPrediction = <<[color |-> "Violet", size |-> "Small"]>>
  /\ AI_STATS[N].lastResultCorrect = "false" /\ AI_STATS[N].losses = 1

\* C12: a reconciliation judges every slot that has a lastPrediction against
\* the newest entry of the snapshot: the size of its number, and its own
\* colour when it has one, else the colour of its number; the slot gains
\* one win or one loss accordingly and its history the bit at the front.
C12_JudgedAgainstNewestEntry ==
  [][lastStep' = "reconcile" =>
       \A s \in Slots : AI_STATS[s].lastPrediction # <<>> =>
         LET newest == cachedHistory'[1]
             actualSize == IF newest.number >= 5 THEN "Big" ELSE "Small"
             actualColor == IF newest.color # NullStr THEN newest.color
                            ELSE colorNormalizedFromNumber(newest.number)
             p == AI_STATS[s].lastPrediction[1]
             won == ToLowerCase(p.color) = ToLowerCase(actualColor) /\ p.size = actualSize
         IN /\ AI_STATS'[s].wins = AI_STATS[s].wins + (IF won THEN 1 ELSE 0)
            /\ AI_STATS'[s].losses = AI_STATS[s].losses + (IF won THEN 0 ELSE 1)
            /\ AI_STATS'[s].history = <<IF won THEN 1 ELSE 0>> \o AI_STATS[s].history]_vars

\* The newest entry has number 7 and no colour (Green, Big); a slot whose
\* prediction was {Red, Big} has one loss, no win and the history <<0>>.
C12_Witness ==
  /\ lastStep = "reconcile"
  /\ cachedHistory[1].number = 7 /\ cachedHistory[1].color = NullStr
  /\ \E s \in Slots :
       /\ AI_STATS[s].lastPrediction = <<[color |-> "Red", size |-> "Big"]>>
       /\ AI_STATS[s].losses = 1 /\ AI_STATS[s].wins = 0
       /\ AI_STATS[s].history = <<0>>
       /\ AI_STATS[s].lastResultCorrect = "false"

\* The history hist after one more judgement of outcome bit, kept newest
\* first within cap entries.
NewestFirst(hist, bit, cap) ==
  [i \in 1..(IF Len(hist) < cap THEN Len(hist) + 1 ELSE cap) |->
     IF i = 1 THEN bit ELSE hist[i - 1]]

\* C13: no slot's history is ever longer than its capacity, and a judgement
\* puts its outcome at the front of the history, the older outcomes behind
\* it in their order, the last (oldest) one dropped once the capacity is
\* exceeded; in the engine's ledger and in server.js's alike.
C13_HistoryNewestFirstWithinCap ==
  /\ [](\A s \in Slots : /\ Len(AI_STATS[s].history) <= HistoryCap
                         /\ Len(served[s].history) <= ServerHistoryCap)
  /\ [][\A s \in Slots :
          /\ Judged(s)' = Judged(s) + 1 =>
               AI_STATS'[s].history =
                 NewestFirst(AI_STATS[s].history,
                             AI_STATS'[s].wins - AI_STATS[s].wins, HistoryCap)
          /\ served'[s].wins + served'[s].losses = served[s].wins + served[s].losses + 1 =>
               served'[s].history =
                 NewestFirst(served[s].history,
                             served'[s].wins - served[s].wins, ServerHistoryCap)]_vars

\* Twice the order of the accuracies of summaries a and b: wins * total of
\* the other, a slot never judged counting as 0 of 1.
Accuracy(a, b) ==
  a.wins * (IF b.wins + b.losses = 0 THEN 1 ELSE b.wins + b.losses)

\* C14: the ranked list of a report holds every slot once, by accuracy
\* descending, slots of different accuracy strictly in that order and slots
\* of equal accuracy by id ascending; ranking the same ledger again gives
\* the same list.
C14_RankedByAccuracyThenId ==
  (reply # <<>> /\ reply[1].ranked # <<>>) =>
    LET ranked == reply[1].ranked
    IN /\ Len(ranked) = N
       /\ {ranked[i].id : i \in 1..N} = Slots
       /\ \A i, j \in 1..N : i < j =>
            \/ Accuracy(ranked[i], ranked[j]) > Accuracy(ranked[j], ranked[i])
            \/ /\ Accuracy(ranked[i], ranked[j]) = Accuracy(ranked[j], ranked[i])
               /\ ranked[i].id < ranked[j].id
       /\ \A i \in 1..N : /\ ranked[i].wins = served[ranked[i].id].wins
                          /\ ranked[i].losses = served[ranked[i].id].losses
       /\ Ranked(served) = ranked

\* A report ranked the last slot, the only one that was right, first.
C14_Witness ==
  /\ reply # <<>> /\ reply[1].ranked # <<>>
  /\ reply[1].ranked[1].id = N
  /\ reply[1].ranked[1].wins = 1 /\ reply[1].ranked[1].losses = 0
  /\ reply[1].ranked[N].losses > 0

C15_ScheduleSurvivesEveryTick ==
  /\ [](\A t \in Ticks :
          /\ pc[t] = "fetch" => \A fetched \in Fetches : ENABLED PollFetched(t, fetched)
          /\ pc[t] = "gen" => /\ awaiting[t] # {}
                              /\ \A s \in awaiting[t] : ENABLED ForecastSettled(t, s))
  /\ []((intervalSet /\ \E t \in Ticks : pc[t] = "idle") =>
          ENABLED (\E t \in Ticks : TimerFire(t)))
  /\ [][/\ intervalSet => intervalSet'
        /\ \A t \in Ticks : (pc[t] # "idle" /\ pc'[t] = "idle") => intervalSet']_vars

\* A scheduled tick found the feed failing and ended, with a batch pending;
\* the timer is still set.
C15_Witness ==
  /\ lastStep = "empty"
  /\ intervalSet
  /\ lastSeenIssue # NoIssue
  /\ pendingPredictions # <<>>
  /\ TicksInProgress = {}
  /\ ENABLED (\E t \in Ticks : TimerFire(t))

\* A step of the POST /api/force handler.
ForceStep ==
  \/ pc'[ForceProc] # pc[ForceProc]
  \/ awaiting'[ForceProc] # awaiting[ForceProc]

\* C17: no step of a forced resolicitation changes the marker, the cached
\* snapshot or a slot's wins, losses or history; the step that ends it stores
\* a fresh batch of N predictions and makes them the slots' lastPrediction,
\* and no step before that changes the batch or a lastPrediction.
C17_ForceOnlyResolicits ==
  [][ForceStep =>
       /\ lastSeenIssue' = lastSeenIssue
       /\ cachedHistory' = cachedHistory
       /\ reconciled' = reconciled
       /\ \A s \in Slots : LedgerOf(s)' = LedgerOf(s)
       /\ IF pc[ForceProc] # "idle" /\ pc'[ForceProc] = "idle"
          THEN /\ pendingPredictions' # <<>>
               /\ ~pendingPredictions'[1].compared
               /\ Len(pendingPredictions'[1].predictions) = N
               /\ \A s \in Slots :
                    LET p == pendingPredictions'[1].predictions[s]
                    IN /\ p.id = s
                       /\ AI_STATS'[s].lastPrediction =
                            <<[color |-> p.color, size |-> p.size]>>
          ELSE /\ pendingPredictions' = pendingPredictions
               /\ AI_STATS' = AI_STATS]_vars

\* A forced resolicitation has ended after a reconciliation: its batch is
\* pending, not compared, and the ledger holds the judgement made before.
C17_Witness ==
  /\ lastStep = "force"
  /\ pc[ForceProc] = "idle"
  /\ lastSeenIssue # NoIssue /\ cachedHistory # <<>>
  /\ pendingPredictions # <<>> /\ ~pendingPredictions[1].compared
  /\ \A s \in Slots : Judged(s) = 1

\* C18: a poll that finds the marker set and the newest issue equal to it
\* judges nothing and keeps the marker; when no batch is stored it solicits
\* one, and when a batch is stored it leaves the batch and every slot's
\* ledger record as they are.
C18_SameIssueSolicitsOrNothing ==
  [][(Polled' /\ lastSeenIssue # NoIssue /\ cachedHistory'[1].issue = lastSeenIssue) =>
       /\ lastSeenIssue' = lastSeenIssue
       /\ reconciled' = reconciled
       /\ \A s \in Slots :
            /\ LedgerOf(s)' = LedgerOf(s)
            /\ AI_STATS'[s].lastResultCorrect = AI_STATS[s].lastResultCorrect
       /\ IF pendingPredictions = <<>>
          THEN /\ lastStep' = "solicit"
               /\ \/ \E t \in Ticks : pc[t] = "fetch" /\ pc'[t] = "gen"
                  \/ /\ pendingPredictions' # <<>>
                     /\ ~pendingPredictions'[1].compared
          ELSE /\ lastStep' = "noop"
               /\ pendingPredictions' = pendingPredictions
               /\ AI_STATS' = AI_STATS]_vars

\* With the marker set and no batch stored yet, a poll of the marker's own
\* period has solicited a batch and waits for the backend.
C18_Witness ==
  /\ lastStep = "solicit"
  /\ lastSeenIssue # NoIssue
  /\ cachedHistory[1].issue = lastSeenIssue
  /\ \A s \in Slots : Judged(s) = 0
  /\ \E t \in Ticks : pc[t] = "gen"

\* The batch is replaced in this step (not merely marked compared).
BatchReplaced ==
  pendingPredictions' # pendingPredictions /\ pendingPredictions' # MarkCompared(pendingPredictions)

C19_JudgedBatchSolicitedBeforeActual ==
  [][(lastStep' = "reconcile" /\ pendingPredictions # <<>>) =>
       batchContext # cachedHistory'[1].issue]_vars

\* The strict parse applies: the text is an object whose color and size
\* are in the vocabularies, in any case.
InVocabulary(txt) ==
  /\ txt.parsed # <<>>
  /\ ToLowerCase(txt.parsed[1].color) \in {"red", "green", "violet"}
  /\ ToLowerCase(txt.parsed[1].size) \in {"big", "small"}

\* The word search applies: the text holds a colour word and a size word.
HasBothWords(txt) ==
  /\ txt.words \cap {"red", "green", "violet"} # {}
  /\ txt.words \cap {"big", "small"} # {}

Rules(d) == [color |-> colorNormalizedFromNumber(d), size |-> sizeOf(d)]

\* C21: a response text is interpreted by the first step that applies, in
\* the order strict parse, word search, first digit, random digit: the
\* forecast is the parsed object's when it is in the vocabularies; else it
\* is made of words of the text when it holds a colour and a size word;
\* else it is the rules' for the first digit when there is one; else it
\* is the rules' for some digit.
C21_FirstMatchingStepWins ==
  (forecast # <<>>) =>
    LET txt == response[1]
        f == forecast[1]
    IN /\ InVocabulary(txt) =>
            /\ ToLowerCase(f.color) = ToLowerCase(txt.parsed[1].color)
            /\ ToLowerCase(f.size) = ToLowerCase(txt.parsed[1].size)
       /\ (~InVocabulary(txt) /\ HasBothWords(txt)) =>
            /\ ToLowerCase(f.color) \in txt.words
            /\ ToLowerCase(f.size) \in txt.words
       /\ (~InVocabulary(txt) /\ ~HasBothWords(txt) /\ txt.digit # NaNNumber) =>
            f = Rules(txt.digit)
       /\ (~InVocabulary(txt) /\ ~HasBothWords(txt) /\ txt.digit = NaNNumber) =>
            \E d \in Digits : f = Rules(d)
       /\ f.color \in Colors /\ f.size \in Sizes

\* An object in the vocabulary, in a text that also holds other words and
\* a digit, is read by the strict parse.
C21_Witness ==
  /\ response # <<>> /\ forecast # <<>>
  /\ response[1].parsed = <<[color |-> "GREEN", size |-> "big"]>>
  /\ "violet" \in response[1].words /\ "small" \in response[1].words
  /\ response[1].digit = 0
  /\ forecast[1] = [color |-> "Green", size |-> "Big"]

\* C23: the rules give Big exactly to 5..9, Violet exactly to 9, Red
\* exactly to 0, 2, 4, 6, 8 and Green exactly to 1, 3, 5, 7.
C23_CategoryRules ==
  (category # <<>>) =>
    LET n == category[1].number
    IN /\ n \in 0..9
       /\ category[1].size \in {"Big", "Small"}
       /\ category[1].color \in {"Red", "Green", "Violet"}
       /\ (category[1].size = "Big") <=> (n >= 5)
       /\ (category[1].color = "Violet") <=> (n = 9)
       /\ (category[1].color = "Red") <=> (n \in {0, 2, 4, 6, 8})
       /\ (category[1].color = "Green") <=> (n \in {1, 3, 5, 7})

C23_Witness ==
  /\ category = <<[number |-> 5, color |-> "Green", size |-> "Big"]>>
  /\ forecast # <<>>

\* The raw item has a numeric outcome that can be parsed: one of its
\* outcome fields holds a number or a numeric string.
Parseable(item) == ~item.null /\ item.number.kind \in {"number", "string"}

\* C22: the normalizer returns, in feed order, the first limit of the raw
\* items whose numeric outcome can be parsed, each with its identifier and
\* its outcome; every other item, one without any outcome field included,
\* is discarded; without an array or a parseable item it returns nothing.
C22_KeepsParseableInFeedOrder ==
  (snapshot # <<>>) =>
    LET kept == SelectSeq(parseWinGoData(payload[1].body), Parseable)
        expected == Take(kept, payload[1].limit)
        returned == snapshot[1]
    IN /\ Len(returned) = Len(expected)
       /\ \A i \in 1..Len(returned) :
            /\ returned[i].issue = expected[i].issue
            /\ returned[i].number = expected[i].number.value

Compared == pendingPredictions # <<>> /\ pendingPredictions[1].compared

\* C24: in every state a slot's lastResultCorrect is null exactly when there
\* is no batch or the batch is not marked compared, and true or false exactly
\* when the batch is marked compared; a step that records predictions
\* leaves every slot's lastResultCorrect null.
C24_JudgementIffBatchCompared ==
  /\ [](\A s \in Slots :
          /\ AI_STATS[s].lastResultCorrect \in {NullStr, "true", "false"}
          /\ (AI_STATS[s].lastResultCorrect = NullStr) <=> ~Compared)
  /\ [][(BatchReplaced \/ \E s \in Slots :
                            AI_STATS'[s].lastPrediction # AI_STATS[s].lastPrediction) =>
          \A s \in Slots : AI_STATS'[s].lastResultCorrect = NullStr]_vars

\* Judged slots whose judgement a new batch has cleared.
C24_Witness ==
  /\ pendingPredictions # <<>> /\ ~pendingPredictions[1].compared
  /\ \A s \in Slots : reconciled[s] >= 1 /\ AI_STATS[s].lastResultCorrect = NullStr

\* C25: in every state with a batch, every slot's lastPrediction is the
\* color and size the batch holds for the slot.
C25_LastPredictionIsBatchEntry ==
  (pendingPredictions # <<>>) =>
    \A s \in Slots :
      /\ pendingPredictions[1].predictions[s].id = s
      /\ AI_STATS[s].lastPrediction =
           <<[color |-> pendingPredictions[1].predictions[s].color,
              size |-> pendingPredictions[1].predictions[s].size]>>

\* A batch of a tick is in place while a forced resolicitation waits for
\* the backend and the feed has moved on.
C25_Witness ==
  /\ pendingPredictions # <<>>
  /\ pc[ForceProc] = "gen"
  /\ lastStep = "reconcile"
  /\ AI_STATS[1].lastPrediction # AI_STATS[N].lastPrediction

\* C26: in every state all slots have the same wins + losses.
C26_SlotsJudgedTogether ==
  \A s, u \in Slots : AI_STATS[s].wins + AI_STATS[s].losses = AI_STATS[u].wins + AI_STATS[u].losses

\* Two reconciliations, after which the slots differ in their wins.
C26_Witness ==
  /\ \A s \in Slots : AI_STATS[s].wins + AI_STATS[s].losses = 2
  /\ AI_STATS[1].wins # AI_STATS[N].wins

\* C27: in every state with a cached snapshot, the marker is the issue of
\* the first entry of the snapshot.
C27_MarkerIsNewestCached ==
  (cachedHistory # <<>>) => lastSeenIssue = cachedHistory[1].issue

\* The feed is ahead of the cached snapshot and a forced resolicitation,
\* which has fetched the newer page, waits for the backend.
C27_Witness ==
  /\ cachedHistory # <<>> /\ lastSeenIssue # NoIssue
  /\ feed # <<>> /\ feed[1].issue # cachedHistory[1].issue
  /\ feed[1].number # NaNNumber
  /\ pc[ForceProc] = "gen"
  /\ lastStep = "force"

Ones(hist) == Cardinality({i \in 1..Len(hist) : hist[i] = 1})

Zeros(hist) == Cardinality({i \in 1..Len(hist) : hist[i] = 0})

\* C28: for every slot the history has min(wins + losses, cap) entries, at
\* most wins of them 1 and at most losses of them 0; as long as wins +
\* losses is within the cap, exactly wins of them are 1.
C28_HistoryCountsWithinLedger ==
  \A s \in Slots :
    LET hist == AI_STATS[s].history
    IN /\ Len(hist) = (IF Judged(s) < HistoryCap THEN Judged(s) ELSE HistoryCap)
       /\ \A i \in 1..Len(hist) : hist[i] \in {0, 1}
       /\ Ones(hist) <= AI_STATS[s].wins
       /\ Zeros(hist) <= AI_STATS[s].losses
       /\ (Judged(s) <= HistoryCap) =>
            (Ones(hist) = AI_STATS[s].wins /\ Zeros(hist) = AI_STATS[s].losses)

\* One judgement past the cap: the oldest outcome, a win, has left the
\* history and a newer win is in it.
C28_Witness ==
  /\ Judged(1) = HistoryCap + 1
  /\ Len(AI_STATS[1].history) = HistoryCap
  /\ AI_STATS[1].wins = 2 /\ Ones(AI_STATS[1].history) = 1

====
